---- MODULE Spec2Model ----
(***************************************************************************)
(* Model of TickerService (src/src/TickerService.ts): a frame-driven       *)
(* scheduler that multiplexes timeouts, intervals, counters, animation     *)
(* frames and animation loops onto one chain of host frame requests.       *)
(*                                                                         *)
(* The host is single-threaded.  A frame callback runs to completion, but  *)
(* the registered callbacks it invokes are opaque and may call back into   *)
(* the service, so a frame is modelled as a run of steps: the traversal    *)
(* runs atomically up to the next callback invocation, the callback's body *)
(* is any sequence of service operations, and its return (or throw)        *)
(* resumes (or aborts) the traversal.                                      *)
(***************************************************************************)
EXTENDS Integers, FiniteSets, Sequences, TLC

(***************************************************************************)
(* Bounds of the model.                                                    *)
(***************************************************************************)
MaxTime == 3        \* the clock stops advancing here
MaxStep == 2        \* largest clock advance between two readings of it
MaxIds == 2         \* number of successful registrations
MaxPending == 2     \* number of host frame requests outstanding at once
MaxSlow == 1        \* slow samples held at once in a long frame-rate history

(***************************************************************************)
(* Program constants.                                                      *)
(***************************************************************************)
FirstIndex == 10000
HistoryLength == 120

(***************************************************************************)
(* JavaScript values that reach the delay / repeats / frameRate            *)
(* parameters.  A value is a tagged record; v is meaningful for "number".  *)
(***************************************************************************)
Num(n) == [t |-> "number", v |-> n]
NaN == [t |-> "nan", v |-> 0]
Infinity == [t |-> "infinity", v |-> 0]
Undefined == [t |-> "undefined", v |-> 0]
Str == [t |-> "string", v |-> 0]

\* typeof x === 'number'
TypeofNumber(x) == x.t \in {"number", "nan", "infinity"}

\* x <= 0, for x of type number (NaN compares false, Infinity is positive)
LeqZero(x) == x.t = "number" /\ x.v <= 0

\* !x
Falsy(x) == x.t \in {"nan", "undefined"} \/ (x.t = "number" /\ x.v = 0)

\* n >= x, for a finite number n
\* Variant: a comparison that needs more than the delay.
GeqStrict(n, x) == x.t = "number" /\ n > x.v

\* Variant: a comparison met one time unit early.
GeqEarly(n, x) == x.t = "number" /\ n + 1 >= x.v

Geq(n, x) == x.t = "number" /\ n >= x.v

\* 1000 / x, for a nonzero number x that divides 1000
Div1000(x) ==
    IF x.t # "number" THEN NaN
    ELSE IF x.v > 0 THEN Num(1000 \div x.v)
    ELSE Num(0 - (1000 \div (0 - x.v)))

(***************************************************************************)
(* Inputs the operations are called with.  The handlers passed are         *)
(* functions.                                                              *)
(***************************************************************************)
Callbacks == {TRUE}
TimeoutInputs == {Num(-1), Num(0), Num(1), Num(2), NaN, Undefined, Str}
IntervalInputs == {Num(-1), Num(0), Num(1), Num(2), NaN, Undefined, Str}
CounterInputs ==
    {<<Num(1), Num(1)>>, <<Num(1), Num(2)>>, <<Num(2), Num(1)>>,
     <<Num(-1), Num(1)>>, <<Num(0), Num(1)>>, <<Undefined, Num(1)>>,
     <<Num(1), Num(0)>>, <<Num(1), Num(-1)>>, <<Num(1), Undefined>>,
     <<Num(0), Num(0)>>}
SleepInputs == {Num(-1), Num(0), Num(1), Num(2)}
FrameRateInputs == {Undefined, Num(0), Num(1000), Num(500), Num(-1000)}
Ids == FirstIndex .. (FirstIndex + MaxIds)
Handles == 1 .. (MaxPending + 1)
Symbols == {"setTimeout", "clearTimeout", "setInterval", "clearInterval",
            "requestAnimationFrame", "cancelAnimationFrame"}

VARIABLES
    now,                    \* the host clock, as last read
    pending,                \* host: frame requests not yet delivered or cancelled
    bindings,               \* host: what each of the six symbols is bound to
    currentIndex,
    currentTime,
    delta,
    animationFrameRequest,
    useScopeFunctionsFlag,
    running,
    frameRateHistory,       \* the latest samples, in milli-frames per second
    tickerCallbacks,        \* the Map, keyed by id in insertion order
    pc,                     \* "idle", or "callback" inside a registered callback
    time,                   \* the frame callback's local `time`
    cur,                    \* the invocation in progress
    trace,                  \* whether `cur` records the calls a callback makes
    calls,                  \* history: invocations started, per id
    cancelled,              \* history: issued ids a cancel call returned for
    regTime,                \* history: the clock at each registration
    restart                 \* history: the clock at the last stop and start

host == <<now, pending, bindings>>
service == <<currentIndex, currentTime, delta, animationFrameRequest,
             useScopeFunctionsFlag, running, frameRateHistory, tickerCallbacks>>
frameCallback == <<pc, time, cur>>
history == <<trace, calls, cancelled, regTime, restart>>
vars == <<host, service, frameCallback, history>>

NoCur == [id |-> 0, tickerTime |-> 0, count |-> 0, last |-> "none"]

\* the callback in progress has made a call of this kind (or got this error)
Called(kind) ==
    cur' = IF trace /\ pc = "callback" THEN [cur EXCEPT !.last = kind] ELSE cur

\* performance.now() / Date.now(), read d after the last reading
getTime(d) == now + d

(***************************************************************************)
(* The state after `new TickerService()`: the field initialisers, then the *)
(* constructor's start().  The clock reads a positive time.                *)
(***************************************************************************)
Constructed(tracing) ==
    /\ trace = tracing
    /\ now = 1
    /\ pending = {1}
    /\ bindings = [s \in Symbols |-> "ticker"]
    /\ currentIndex = FirstIndex
    /\ currentTime = now
    /\ delta = 0
    /\ frameRateHistory = <<>>
    /\ animationFrameRequest = 1
    /\ useScopeFunctionsFlag = FALSE
    /\ running = TRUE
    /\ tickerCallbacks = <<>>
    /\ pc = "idle"
    /\ time = 0
    /\ cur = NoCur
    /\ calls = <<>>
    /\ cancelled = {}
    /\ regTime = <<>>

(***************************************************************************)
(* restart is a history of the last stop() that ended a run, of the last    *)
(* start() made between two frames that no frame has followed yet (0:      *)
(* none), and of the ids registered while the service was stopped that no  *)
(* frame has followed yet.  It is kept only by the behaviours that begin   *)
(* with it on.                                                             *)
(***************************************************************************)
NoRestart == [on |-> FALSE, stop |-> 0, start |-> 0, idle |-> {}]

Stopped ==
    IF restart.on /\ running
    THEN [restart EXCEPT !.stop = now, !.start = 0]
    ELSE restart

Started(d) ==
    IF restart.on
    THEN [restart EXCEPT !.start = IF pc = "idle" THEN getTime(d) ELSE 0]
    ELSE restart

Framed == IF restart.on THEN [restart EXCEPT !.start = 0, !.idle = {}] ELSE restart

Registered ==
    IF restart.on /\ ~running
    THEN [restart EXCEPT !.idle = @ \cup {currentIndex}]
    ELSE restart

Init == Constructed(FALSE) /\ restart = NoRestart
InitCalls == Constructed(TRUE) /\ restart = NoRestart
InitRestart ==
    Constructed(FALSE) /\ restart = [on |-> TRUE, stop |-> 0, start |-> now, idle |-> {}]

(***************************************************************************)
(* set useScopeFunctions(value)                                            *)
(***************************************************************************)
\* Variant: a setter that forgets to rebind cancelAnimationFrame.
BindingsAfterPartial(value) ==
    IF value # useScopeFunctionsFlag
    THEN [s \in Symbols |->
            IF s = "cancelAnimationFrame" THEN bindings[s]
            ELSE IF value THEN "original" ELSE "ticker"]
    ELSE bindings

BindingsAfter(value) ==
    IF value # useScopeFunctionsFlag
    THEN [s \in Symbols |-> IF value THEN "original" ELSE "ticker"]
    ELSE bindings

\* Variant: a setter that stops the run loop when it restores the originals.
setUseScopeFunctionsStopping(value) ==
    /\ bindings' = BindingsAfter(value)
    /\ useScopeFunctionsFlag' = value
    /\ running' = (running /\ ~value)
    /\ Called("other")
    /\ UNCHANGED <<now, pending, currentIndex, currentTime, delta, frameRateHistory,
                   animationFrameRequest, tickerCallbacks, pc, time, history>>

setUseScopeFunctions(value) ==
    /\ bindings' = BindingsAfter(value)
    /\ useScopeFunctionsFlag' = value
    /\ Called("other")
    /\ UNCHANGED <<now, pending, currentIndex, currentTime, delta, frameRateHistory,
                   animationFrameRequest, running, tickerCallbacks,
                   pc, time, history>>

(***************************************************************************)
(* createTickerCallback and the five registration operations               *)
(***************************************************************************)
\* Variant: a validation that lets a zero delay or repeat count through.
CreateErrorAllowingZero(repeats, delay) ==
    IF ~TypeofNumber(delay) \/ (delay.t = "number" /\ delay.v < 0) THEN "InvalidDelay"
    ELSE IF ~TypeofNumber(repeats) \/ (repeats.t = "number" /\ repeats.v < 0)
         THEN "InvalidRepeat"
    ELSE "ok"

CreateError(repeats, delay) ==
    IF ~TypeofNumber(delay) \/ LeqZero(delay) THEN "InvalidDelay"
    ELSE IF ~TypeofNumber(repeats) \/ LeqZero(repeats) THEN "InvalidRepeat"
    ELSE "ok"

\* Variant: an entry that starts with no time accumulated.
NewEntryFromZero(callback, repeats, delay, d) ==
    [callback |-> callback, repeats |-> repeats, delay |-> delay, count |-> 0,
     executionTime |-> 0, totalTime |-> 0]

NewEntry(callback, repeats, delay, d) ==
    [callback |-> callback, repeats |-> repeats, delay |-> delay, count |-> 0,
     executionTime |-> 0, totalTime |-> currentTime - getTime(d)]

\* Variant: a registration that reads currentIndex without incrementing it.
createTickerCallbackSameIndex(callback, repeats, delay, d) ==
    IF CreateError(repeats, delay) # "ok"
    THEN /\ d = 0
         /\ Called(CreateError(repeats, delay))
         /\ UNCHANGED <<host, service, pc, time, history>>
    ELSE /\ getTime(d) <= MaxTime
         /\ now' = getTime(d)
         /\ tickerCallbacks' =
                [i \in DOMAIN tickerCallbacks \cup {currentIndex} |->
                    IF i = currentIndex THEN NewEntry(callback, repeats, delay, d)
                    ELSE tickerCallbacks[i]]
         /\ calls' = [i \in DOMAIN calls \cup {currentIndex} |->
                        IF i = currentIndex THEN 0 ELSE calls[i]]
         /\ regTime' = [i \in DOMAIN regTime \cup {currentIndex} |->
                          IF i = currentIndex THEN getTime(d) ELSE regTime[i]]
         /\ restart' = Registered
         /\ Called("other")
         /\ UNCHANGED <<pending, bindings, currentIndex, currentTime, delta, frameRateHistory,
                        animationFrameRequest, useScopeFunctionsFlag, running,
                        pc, time, trace, cancelled>>

createTickerCallback(callback, repeats, delay, d) ==
    IF CreateError(repeats, delay) # "ok"
    THEN /\ d = 0
         /\ Called(CreateError(repeats, delay))
         /\ UNCHANGED <<host, service, pc, time, history>>
    ELSE /\ currentIndex < FirstIndex + MaxIds
         /\ getTime(d) <= MaxTime
         /\ now' = getTime(d)
         /\ currentIndex' = currentIndex + 1
         /\ tickerCallbacks' =
                tickerCallbacks @@ (currentIndex :> NewEntry(callback, repeats, delay, d))
         /\ calls' = calls @@ (currentIndex :> 0)
         /\ regTime' = regTime @@ (currentIndex :> getTime(d))
         /\ restart' = Registered
         /\ Called("other")
         /\ UNCHANGED <<pending, bindings, currentTime, delta, frameRateHistory, animationFrameRequest,
                        useScopeFunctionsFlag, running, pc, time, trace, cancelled>>

\* Variant: the delay is passed on as given.
TimeoutDelayAsGiven(t) == t

TimeoutDelay(t) == IF Falsy(t) THEN Num(1) ELSE t

setTimeout(callback, t, d) ==
    createTickerCallback(callback, Num(1), TimeoutDelay(t), d)

setInterval(callback, t, d) ==
    createTickerCallback(callback, Infinity, t, d)

setCounter(callback, t, repeats, d) ==
    createTickerCallback(callback, repeats, t, d)

requestAnimationFrame(callback, d) ==
    createTickerCallback(callback, Num(1), Num(1), d)

LoopDelay(frameRate) == IF Falsy(frameRate) THEN Num(1) ELSE Div1000(frameRate)

setAnimationLoop(callback, frameRate, d) ==
    createTickerCallback(callback, Infinity, LoopDelay(frameRate), d)

(***************************************************************************)
(* sleep and frame.  Each calls the global setTimeout / requestAnimation-  *)
(* Frame from inside a Promise executor, that is whatever the symbol is    *)
(* bound to at that moment, with the promise's resolve as the callback.    *)
(* Bound to the scheduler, the call registers an entry; an error it raises *)
(* is caught by the executor and rejects the promise.  Bound to the        *)
(* original, the timer lives in the host and nothing of the service        *)
(* changes.                                                                *)
(***************************************************************************)
native ==
    /\ Called("native")
    /\ UNCHANGED <<host, service, pc, time, history>>

\* Variant: a sleep() that calls the scheduler's own setTimeout.
sleepManaged(t, d) == setTimeout(TRUE, t, d)

sleep(t, d) ==
    IF bindings["setTimeout"] = "ticker"
    THEN setTimeout(TRUE, t, d)
    ELSE d = 0 /\ native

frame(d) ==
    IF bindings["requestAnimationFrame"] = "ticker"
    THEN requestAnimationFrame(TRUE, d)
    ELSE d = 0 /\ native

(***************************************************************************)
(* clearTickerCallback and the five cancel operations                      *)
(***************************************************************************)
\* Variant: a delete that also drops every entry registered after `index`.
MapDeleteFrom(map, index) == [i \in {j \in DOMAIN map : j < index} |-> map[i]]

MapDelete(map, index) == [i \in DOMAIN map \ {index} |-> map[i]]

\* Variant: a cancel that returns without deleting the entry.
clearTickerCallbackKeeping(index) ==
    /\ cancelled' = IF index < currentIndex THEN cancelled \cup {index} ELSE cancelled
    /\ Called("cancel")
    /\ UNCHANGED <<host, service, pc, time, trace, calls, regTime, restart>>

clearTickerCallback(index) ==
    /\ tickerCallbacks' = MapDelete(tickerCallbacks, index)
    /\ cancelled' = IF index < currentIndex THEN cancelled \cup {index} ELSE cancelled
    /\ Called("cancel")
    /\ UNCHANGED <<host, currentIndex, currentTime, delta, frameRateHistory, animationFrameRequest,
                   useScopeFunctionsFlag, running, pc, time, trace, calls, regTime, restart>>

clearTimeout(index) == clearTickerCallback(index)
clearInterval(index) == clearTickerCallback(index)
clearCounter(index) == clearTickerCallback(index)
cancelAnimationFrame(index) == clearTickerCallback(index)
clearAnimationLoop(index) == clearTickerCallback(index)

(***************************************************************************)
(* start, stop and the run loop                                            *)
(***************************************************************************)
\* originalRequestAnimationFrame: a handle no outstanding request uses
FreshHandle(pend) ==
    CHOOSE h \in Handles : h \notin pend /\ h # animationFrameRequest

\* frame requests that will exist once the frame in progress has ended
Requests == Cardinality(pending) + (IF pc = "callback" THEN 1 ELSE 0)

\* Variant: a start() without the `if (!this.running)` guard.
startUnguarded(d) ==
    /\ Called("start")
    /\ restart' = Started(d)
    /\ UNCHANGED <<pc, time, trace, calls, cancelled, regTime>>
    /\ Requests < MaxPending
    /\ getTime(d) <= MaxTime
    /\ now' = getTime(d)
    /\ bindings' = BindingsAfter(FALSE)
    /\ useScopeFunctionsFlag' = FALSE
    /\ running' = TRUE
    /\ currentTime' = getTime(d)
    /\ animationFrameRequest' = FreshHandle(pending)
    /\ pending' = pending \cup {FreshHandle(pending)}
    /\ UNCHANGED <<currentIndex, delta, frameRateHistory, tickerCallbacks>>

\* Variant: a start() that keeps the baseline of the last frame.
startKeepingBaseline(d) ==
    /\ Called("start")
    /\ UNCHANGED <<pc, time, trace, calls, cancelled, regTime>>
    /\ IF ~running
       THEN
         /\ restart' = Started(d)
         /\ Requests < MaxPending
         /\ getTime(d) <= MaxTime
         /\ now' = getTime(d)
         /\ bindings' = BindingsAfter(FALSE)
         /\ useScopeFunctionsFlag' = FALSE
         /\ running' = TRUE
         /\ animationFrameRequest' = FreshHandle(pending)
         /\ pending' = pending \cup {FreshHandle(pending)}
         /\ UNCHANGED <<currentIndex, currentTime, delta, frameRateHistory, tickerCallbacks>>
       ELSE d = 0 /\ UNCHANGED <<host, service, restart>>

start(d) ==
    /\ Called("start")
    /\ UNCHANGED <<pc, time, trace, calls, cancelled, regTime>>
    /\ IF ~running
       THEN
         /\ restart' = Started(d)
         /\ Requests < MaxPending
         /\ getTime(d) <= MaxTime
         /\ now' = getTime(d)
         /\ bindings' = BindingsAfter(FALSE)
         /\ useScopeFunctionsFlag' = FALSE
         /\ running' = TRUE
         /\ currentTime' = getTime(d)
         /\ animationFrameRequest' = FreshHandle(pending)
         /\ pending' = pending \cup {FreshHandle(pending)}
         /\ UNCHANGED <<currentIndex, delta, frameRateHistory, tickerCallbacks>>
       ELSE d = 0 /\ UNCHANGED <<host, service, restart>>

\* Variant: a stop() that also empties the registry.
stopClearing ==
    /\ running' = FALSE
    /\ pending' = pending \ {animationFrameRequest}
    /\ bindings' = BindingsAfter(TRUE)
    /\ useScopeFunctionsFlag' = TRUE
    /\ tickerCallbacks' = <<>>
    /\ Called("other")
    /\ restart' = Stopped
    /\ UNCHANGED <<now, currentIndex, currentTime, delta, frameRateHistory,
                   animationFrameRequest, pc, time, trace, calls, cancelled, regTime>>

stop ==
    /\ running' = FALSE
    /\ pending' = pending \ {animationFrameRequest}
    /\ bindings' = BindingsAfter(TRUE)
    /\ useScopeFunctionsFlag' = TRUE
    /\ Called("other")
    /\ restart' = Stopped
    /\ UNCHANGED <<now, currentIndex, currentTime, delta, frameRateHistory, animationFrameRequest,
                   tickerCallbacks, pc, time, trace, calls, cancelled, regTime>>

(***************************************************************************)
(* tick: Map.forEach visits the entries in insertion order, which is id    *)
(* order; an entry added during the traversal is visited, one deleted      *)
(* before its turn is not.  RunTick runs the traversal from the entry      *)
(* after `last` up to the first entry whose callback is to be invoked.     *)
(***************************************************************************)
\* Variant: a traversal by position, which loses the entry that follows a
\* removed one.
RECURSIVE RunTickByPosition(_, _, _)
RunTickByPosition(map, last, dl) ==
    LET from == IF last = 0 \/ last \in DOMAIN map THEN last ELSE last + 1
        rest == {i \in DOMAIN map : i > from} IN
    IF rest = {} THEN [map |-> map, fire |-> 0, tickerTime |-> 0]
    ELSE LET tickerId == CHOOSE i \in rest : \A j \in rest : i <= j
             ticker == map[tickerId]
             totalTime == ticker.totalTime + dl
             tickerTime == totalTime - ticker.executionTime
             advanced == [map EXCEPT ![tickerId].totalTime = totalTime]
         IN IF Geq(tickerTime, ticker.delay) /\ ticker.callback
            THEN [map |-> advanced, fire |-> tickerId, tickerTime |-> tickerTime]
            ELSE RunTickByPosition(advanced, tickerId, dl)

RECURSIVE RunTick(_, _, _)
RunTick(map, last, dl) ==
    LET rest == {i \in DOMAIN map : i > last} IN
    IF rest = {} THEN [map |-> map, fire |-> 0, tickerTime |-> 0]
    ELSE LET tickerId == CHOOSE i \in rest : \A j \in rest : i <= j
             ticker == map[tickerId]
             totalTime == ticker.totalTime + dl
             tickerTime == totalTime - ticker.executionTime
             advanced == [map EXCEPT ![tickerId].totalTime = totalTime]
         IN IF Geq(tickerTime, ticker.delay) /\ ticker.callback
            THEN [map |-> advanced, fire |-> tickerId, tickerTime |-> tickerTime]
            ELSE RunTick(advanced, tickerId, dl)

\* count >= repeats
Exhausted(count, repeats) == repeats.t = "number" /\ count >= repeats.v

\* Variant: the execution time moves on by one delay, keeping the excess.
AfterCallbackRolling(map, tickerId) ==
    IF tickerId \notin DOMAIN map THEN map
    ELSE LET ticker == map[tickerId] IN
         IF Exhausted(ticker.count + 1, ticker.repeats)
         THEN MapDelete(map, tickerId)
         ELSE [map EXCEPT ![tickerId].count = ticker.count + 1,
                          ![tickerId].executionTime =
                              ticker.executionTime + ticker.delay.v]

\* the statements of tick after ticker.callback(...) has returned
AfterCallback(map, tickerId) ==
    IF tickerId \notin DOMAIN map THEN map
    ELSE LET ticker == map[tickerId] IN
         IF Exhausted(ticker.count + 1, ticker.repeats)
         THEN MapDelete(map, tickerId)
         ELSE [map EXCEPT ![tickerId].count = ticker.count + 1,
                          ![tickerId].executionTime = ticker.totalTime]

(***************************************************************************)
(* The frame-rate samples.  A rate is kept in thousandths of a frame per   *)
(* second, 1000 / delta being cut to that precision.                       *)
(***************************************************************************)
\* get maxFrameRate, for a delta: Math.round(1000 / delta / 30) * 30, or 60
MaxFrameRate(dl) ==
    IF dl # 0 THEN ((2000 + 30 * dl) \div (60 * dl)) * 30 ELSE 60

\* Math.min(1000 / delta, this.maxFrameRate), in thousandths
FrameRateSample(dl) ==
    IF 1000 <= MaxFrameRate(dl) * dl
    THEN 1000000 \div dl
    ELSE MaxFrameRate(dl) * 1000

RECURSIVE Sum(_)
Sum(samples) == IF samples = <<>> THEN 0 ELSE Head(samples) + Sum(Tail(samples))

\* get averageFrameRate, as a total of thousandths and the number it is
\* divided by: the mean of the history, or frameRate when nothing is stored
AverageTotal(dl, samples) ==
    IF Len(samples) # 0 THEN Sum(samples) ELSE FrameRateSample(dl)

AverageCount(samples) == IF Len(samples) # 0 THEN Len(samples) ELSE 1

\* get score: Math.round(averageFrameRate / maxFrameRate * 100); a division
\* by zero gives NaN (0 / 0) or Infinity
score(dl, samples) ==
    LET total == AverageTotal(dl, samples)
        hundredth == AverageCount(samples) * MaxFrameRate(dl) * 10
    IN IF hundredth = 0
       THEN IF total = 0 THEN NaN ELSE Infinity
       ELSE Num((2 * total + hundredth) \div (2 * hundredth))

\* unshift(frameRate), then the cut to HistoryLength
\* Variant: the cut drops the newest sample instead of the oldest.
UnshiftCuttingFront(samples, sample) ==
    LET longer == <<sample>> \o samples IN
    IF Len(longer) > HistoryLength THEN SubSeq(longer, 2, Len(longer)) ELSE longer

Unshift(samples, sample) ==
    LET longer == <<sample>> \o samples IN
    IF Len(longer) > HistoryLength THEN SubSeq(longer, 1, HistoryLength) ELSE longer

\* Variant: a sample is stored for every frame, whatever its delta.
storeFrameRateHistoryAlways(dl, samples) == Unshift(samples, FrameRateSample(dl))

storeFrameRateHistory(dl, samples) ==
    IF dl > 0 THEN Unshift(samples, FrameRateSample(dl)) ELSE samples

\* the frame callback from tick() on: the traversal resumes after `last`, and
\* either reaches a callback to invoke or runs to the end of the frame.
Resume(map, last, dl, t, pend) ==
    LET r == RunTick(map, last, dl) IN
    IF r.fire # 0
    THEN /\ tickerCallbacks' = r.map
         /\ pc' = "callback"
         /\ time' = t
         /\ cur' = [id |-> r.fire, tickerTime |-> r.tickerTime,
                    count |-> r.map[r.fire].count, last |-> "none"]
         /\ calls' = [calls EXCEPT ![r.fire] = @ + 1]
         /\ pending' = pend
         /\ UNCHANGED <<currentTime, animationFrameRequest, frameRateHistory>>
    ELSE /\ tickerCallbacks' = r.map
         /\ currentTime' = t
         /\ frameRateHistory' = storeFrameRateHistory(dl, frameRateHistory)
         /\ animationFrameRequest' = FreshHandle(pend)
         /\ pending' = pend \cup {FreshHandle(pend)}
         /\ pc' = "idle"
         /\ time' = 0
         /\ cur' = NoCur
         /\ UNCHANGED calls

FrameDelta(d) == IF currentTime # 0 THEN getTime(d) - currentTime ELSE 0

\* the host delivers frame request h
playAnimationFrame(h, d) ==
    /\ pc = "idle"
    /\ h \in pending
    /\ IF running
       THEN /\ getTime(d) <= MaxTime
            /\ now' = getTime(d)
            /\ delta' = FrameDelta(d)
            /\ restart' = Framed
            /\ IF FrameDelta(d) # 0
               THEN Resume(tickerCallbacks, 0, FrameDelta(d), getTime(d), pending \ {h})
               ELSE Resume(tickerCallbacks, FirstIndex + MaxIds, 0, getTime(d),
                           pending \ {h})
       ELSE /\ d = 0
            /\ pending' = pending \ {h}
            /\ UNCHANGED <<now, currentTime, delta, frameRateHistory, animationFrameRequest,
                           tickerCallbacks, frameCallback, calls, restart>>
    /\ UNCHANGED <<bindings, currentIndex, useScopeFunctionsFlag, running,
                   trace, cancelled, regTime>>

\* Variant: the traversal resumes at the entry whose callback has returned.
CallbackReturnRevisiting ==
    /\ pc = "callback"
    /\ Resume(AfterCallback(tickerCallbacks, cur.id), cur.id - 1, delta, time, pending)
    /\ UNCHANGED <<now, bindings, currentIndex, delta, useScopeFunctionsFlag,
                   running, trace, cancelled, regTime, restart>>

\* the callback in progress returns
CallbackReturn ==
    /\ pc = "callback"
    /\ Resume(AfterCallback(tickerCallbacks, cur.id), cur.id, delta, time, pending)
    /\ UNCHANGED <<now, bindings, currentIndex, delta, useScopeFunctionsFlag,
                   running, trace, cancelled, regTime, restart>>

\* Variant: the error is caught and the invocation is counted.
CallbackThrowCounted ==
    /\ pc = "callback"
    /\ pc' = "idle"
    /\ time' = 0
    /\ cur' = NoCur
    /\ tickerCallbacks' = AfterCallback(tickerCallbacks, cur.id)
    /\ UNCHANGED <<host, currentIndex, currentTime, delta, animationFrameRequest,
                   useScopeFunctionsFlag, running, frameRateHistory, history>>

\* the callback in progress throws: the error leaves forEach, tick and the
\* frame callback
CallbackThrow ==
    /\ pc = "callback"
    /\ pc' = "idle"
    /\ time' = 0
    /\ cur' = NoCur
    /\ UNCHANGED <<host, service, history>>

Steps == 0 .. MaxStep

Next ==
    \/ \E value \in BOOLEAN : setUseScopeFunctions(value)
    \/ \E callback \in Callbacks, t \in TimeoutInputs, d \in Steps :
          setTimeout(callback, t, d)
    \/ \E callback \in Callbacks, t \in IntervalInputs, d \in Steps :
          setInterval(callback, t, d)
    \/ \E callback \in Callbacks, in \in CounterInputs, d \in Steps :
          setCounter(callback, in[1], in[2], d)
    \/ \E callback \in Callbacks, d \in Steps : requestAnimationFrame(callback, d)
    \/ \E callback \in Callbacks, frameRate \in FrameRateInputs, d \in Steps :
          setAnimationLoop(callback, frameRate, d)
    \/ \E t \in SleepInputs, d \in Steps : sleep(t, d)
    \/ \E d \in Steps : frame(d)
    \/ \E index \in Ids : clearTimeout(index)
    \/ \E index \in Ids : clearInterval(index)
    \/ \E index \in Ids : clearCounter(index)
    \/ \E index \in Ids : cancelAnimationFrame(index)
    \/ \E index \in Ids : clearAnimationLoop(index)
    \/ \E d \in Steps : start(d)
    \/ stop
    \/ \E h \in Handles, d \in Steps : playAnimationFrame(h, d)
    \/ CallbackReturn
    \/ CallbackThrow

(***************************************************************************)
(* Construction.  Loaded is the state before `new TickerService()`: the    *)
(* module has captured the six originals, which are still bound, and the   *)
(* fields have their initialisers (animationFrameRequest is null, here 0). *)
(* The constructor exports the additional functions, which are not among   *)
(* the six symbols, and calls start().                                     *)
(***************************************************************************)
Loaded ==
    /\ trace = FALSE
    /\ restart = NoRestart
    /\ now = 1
    /\ pending = {}
    /\ bindings = [s \in Symbols |-> "original"]
    /\ currentIndex = FirstIndex
    /\ currentTime = 0
    /\ delta = 0
    /\ frameRateHistory = <<>>
    /\ animationFrameRequest = 0
    /\ useScopeFunctionsFlag = TRUE
    /\ running = FALSE
    /\ tickerCallbacks = <<>>
    /\ pc = "idle"
    /\ time = 0
    /\ cur = NoCur
    /\ calls = <<>>
    /\ cancelled = {}
    /\ regTime = <<>>

\* Variant: a constructor that does not start the service.
constructorNotStarting ==
    /\ animationFrameRequest = 0
    /\ animationFrameRequest' = 1
    /\ UNCHANGED <<host, currentIndex, currentTime, delta, frameRateHistory,
                   useScopeFunctionsFlag, running, tickerCallbacks, frameCallback, history>>

constructor ==
    /\ animationFrameRequest = 0
    /\ start(0)

NextNew ==
    \/ constructor
    \/ animationFrameRequest # 0 /\ Next

\* every behaviour of the service
Spec == Init /\ [][Next]_vars

\* the same behaviours, from before the construction
SpecNew == Loaded /\ [][NextNew]_vars

\* the same behaviours, with the calls of the callback in progress recorded
SpecCalls == InitCalls /\ [][Next]_vars

(***************************************************************************)
(* The service left Running in managed mode: promises are requested with   *)
(* sleep and frame, intervals are registered, nothing stops the service,   *)
(* switches the mode, cancels or throws.  Frames with a positive delta     *)
(* keep being delivered for as long as the clock of the model can advance, *)
(* and every callback returns.                                             *)
(***************************************************************************)
ManagedDelays == {Num(0), Num(1), Num(2)}

NextManaged ==
    \/ \E t \in ManagedDelays, d \in Steps : sleep(t, d)
    \/ \E d \in Steps : frame(d)
    \/ \E callback \in Callbacks, t \in ManagedDelays, d \in Steps :
          setInterval(callback, t, d)
    \/ \E h \in Handles, d \in Steps : playAnimationFrame(h, d)
    \/ CallbackReturn

PositiveFrame ==
    \E h \in Handles, d \in Steps : playAnimationFrame(h, d) /\ delta' > 0

SpecManaged ==
    /\ Init
    /\ [][NextManaged]_vars
    /\ WF_vars(PositiveFrame)
    /\ WF_vars(CallbackReturn)

(***************************************************************************)
(* The service stopped and started again: timeouts and next-frame          *)
(* callbacks are registered, the service is stopped and started between    *)
(* frames and inside callbacks, and the history of the last stop and start *)
(* is kept.                                                                *)
(***************************************************************************)
RestartDelays == {Num(1), Num(2)}

NextRestart ==
    \/ \E callback \in Callbacks, t \in RestartDelays, d \in Steps :
          setTimeout(callback, t, d)
    \/ \E callback \in Callbacks, d \in Steps : requestAnimationFrame(callback, d)
    \/ \E d \in Steps : start(d)
    \/ stop
    \/ \E h \in Handles, d \in Steps : playAnimationFrame(h, d)
    \/ CallbackReturn
    \/ CallbackThrow

SpecRestart == InitRestart /\ [][NextRestart]_vars

(***************************************************************************)
(* storeFrameRateHistory on its own: the deltas of a long run of frames,   *)
(* at 60, at 30 and at 10 frames per second, are stored one after the      *)
(* other.  At most MaxSlow samples of the window are slow ones.            *)
(***************************************************************************)
FrameDeltas == {0, 16, 33, 100}

Slow(samples) ==
    Cardinality({k \in 1 .. Len(samples) : samples[k] # FrameRateSample(16)})

StoreSample(dl) ==
    /\ pc = "idle"
    /\ running
    /\ Slow(storeFrameRateHistory(dl, frameRateHistory)) <= MaxSlow
    /\ delta' = dl
    /\ frameRateHistory' = storeFrameRateHistory(dl, frameRateHistory)
    /\ UNCHANGED <<host, currentIndex, currentTime, animationFrameRequest,
                   useScopeFunctionsFlag, running, tickerCallbacks, frameCallback,
                   history>>

NextHistory == \E dl \in FrameDeltas : StoreSample(dl)

SpecHistory == Init /\ [][NextHistory]_vars

(***************************************************************************)
(* The service left Running: nothing stops it.  Timeouts, intervals and    *)
(* next-frame callbacks are registered and cancelled between frames and    *)
(* inside callbacks, the mode is switched, callbacks return or throw.      *)
(***************************************************************************)
NextRunning ==
    \/ \E value \in BOOLEAN : setUseScopeFunctions(value)
    \/ \E callback \in Callbacks, t \in RestartDelays, d \in Steps :
          setTimeout(callback, t, d)
    \/ \E callback \in Callbacks, t \in RestartDelays, d \in Steps :
          setInterval(callback, t, d)
    \/ \E callback \in Callbacks, d \in Steps : requestAnimationFrame(callback, d)
    \/ \E index \in Ids : clearTimeout(index)
    \/ \E h \in Handles, d \in Steps : playAnimationFrame(h, d)
    \/ CallbackReturn
    \/ CallbackThrow

SpecRunning == Init /\ [][NextRunning]_vars

(***************************************************************************)
(* Vocabulary of the properties.                                           *)
(***************************************************************************)
Live == DOMAIN tickerCallbacks
Issued == FirstIndex .. (currentIndex - 1)
Bounded(ticker) == ticker.repeats.t = "number"
InCallback(i) == pc = "callback" /\ cur.id = i
\* this step begins the invocation of a registered callback
Invokes == pc' = "callback" /\ (pc = "idle" \/ cur'.id # cur.id)
\* typeof x !== 'number' || x <= 0, as the caller passed it
NotPositive(x) == ~TypeofNumber(x) \/ LeqZero(x)
\* the call raised this error and changed nothing
Rejected(kind) ==
    /\ UNCHANGED <<host, service, pc, time, history>>
    /\ (trace /\ pc = "callback") => cur'.last = kind
\* the registry without the entry `index`, written out
Without(index) ==
    [i \in {j \in Live : j # index} |-> tickerCallbacks[i]]

(***************************************************************************)
(* C1.  A bounded-repeat entry of N repeats (a delayed-once entry is       *)
(* N = 1) is never invoked more than N times, and is absent from the       *)
(* registry as soon as its Nth invocation is over.                         *)
(***************************************************************************)
C1_ExactlyN ==
    \A i \in Live :
        Bounded(tickerCallbacks[i]) =>
            /\ calls[i] <= tickerCallbacks[i].repeats.v
            /\ calls[i] = tickerCallbacks[i].repeats.v => InCallback(i)

(***************************************************************************)
(* C2.  A delayed-once callback is not invoked before `delay` milliseconds *)
(* of clock time have passed since its registration.                       *)
(***************************************************************************)
C2_NotBeforeDelay ==
    \A i \in Live :
        (InCallback(i) /\ tickerCallbacks[i].repeats = Num(1)) =>
            now - regTime[i] >= tickerCallbacks[i].delay.v

(***************************************************************************)
(* C3.  Once a cancel call for an id has returned, no step begins an       *)
(* invocation of that id: not in a later tick, and not in the rest of the  *)
(* current tick when the cancel came from another entry's callback.        *)
(***************************************************************************)
C3_CancelledNeverInvoked == [][Invokes => cur'.id \notin cancelled]_vars

\* a callback has just cancelled; an entry after it in the traversal, registered
\* before this frame and never invoked, is cancelled
C3_Witness ==
    /\ pc = "callback"
    /\ cur.last = "cancel"
    /\ \E i \in cancelled : i > cur.id /\ regTime[i] < time /\ calls[i] = 0

(***************************************************************************)
(* C4.  In every reachable state each of the five cancel operations, for   *)
(* every id, can be called, and no call of it does anything but remove     *)
(* exactly the entry with that id: every other entry and everything else   *)
(* is unchanged, and for an id with no entry (never issued, cancelled,     *)
(* self-removed) the registry is unchanged.                                *)
(***************************************************************************)
CancelEffect(index) ==
    /\ tickerCallbacks' = Without(index)
    /\ index \notin Live => UNCHANGED tickerCallbacks
    /\ UNCHANGED <<host, currentIndex, currentTime, delta, frameRateHistory, animationFrameRequest,
                   useScopeFunctionsFlag, running, pc, time, calls, regTime>>

C4_CancelRemovesOnlyThat ==
    \A index \in Ids :
        /\ ENABLED clearTimeout(index)
        /\ ENABLED clearInterval(index)
        /\ ENABLED clearCounter(index)
        /\ ENABLED cancelAnimationFrame(index)
        /\ ENABLED clearAnimationLoop(index)
        /\ ~ENABLED (clearTimeout(index) /\ ~CancelEffect(index))
        /\ ~ENABLED (clearInterval(index) /\ ~CancelEffect(index))
        /\ ~ENABLED (clearCounter(index) /\ ~CancelEffect(index))
        /\ ~ENABLED (cancelAnimationFrame(index) /\ ~CancelEffect(index))
        /\ ~ENABLED (clearAnimationLoop(index) /\ ~CancelEffect(index))

\* the first of two entries has been cancelled, by the callback of the second,
\* which is still registered
C4_Witness ==
    /\ pc = "callback"
    /\ cur.last = "cancel"
    /\ cur.id \in Live
    /\ \E i \in cancelled : i < cur.id /\ i \notin Live

(***************************************************************************)
(* C5.  Ids are issued in increasing order from 10000 and never reused:    *)
(* the id of a new entry is greater than every id issued before, and every *)
(* id in use or once in use is below the next id to issue.                 *)
(***************************************************************************)
C5_IdsNeverReused ==
    /\ [](/\ currentIndex >= FirstIndex
          /\ DOMAIN calls = Issued
          /\ Live \subseteq Issued
          /\ cancelled \subseteq Issued)
    /\ [][/\ currentIndex' >= currentIndex
          /\ \A i \in DOMAIN tickerCallbacks' \ Live :
                /\ i = currentIndex
                /\ currentIndex' = currentIndex + 1
                /\ \A j \in DOMAIN calls : j < i]_vars

\* a second id was issued after the first entry had been invoked and removed
C5_Witness ==
    /\ currentIndex = FirstIndex + 2
    /\ FirstIndex \notin Live
    /\ calls[FirstIndex] > 0
    /\ (FirstIndex + 1) \in Live
    /\ regTime[FirstIndex + 1] > regTime[FirstIndex]

(***************************************************************************)
(* C6, as the specification states it.  In every reachable state, a call   *)
(* of setTimeout, setInterval or setCounter with a delay that is <= 0 or   *)
(* not a number fails with the invalid-delay error, and one with           *)
(* repeats <= 0 with the invalid-repeat error; the failed call adds no     *)
(* entry and consumes no id.                                               *)
(***************************************************************************)
C6_AsStated ==
    \A callback \in Callbacks, d \in Steps :
        /\ \A t \in TimeoutInputs :
              NotPositive(t) =>
                  ~ENABLED (setTimeout(callback, t, d) /\ ~Rejected("InvalidDelay"))
        /\ \A t \in IntervalInputs :
              NotPositive(t) =>
                  ~ENABLED (setInterval(callback, t, d) /\ ~Rejected("InvalidDelay"))
        /\ \A in \in CounterInputs :
              /\ NotPositive(in[1]) =>
                    ~ENABLED (setCounter(callback, in[1], in[2], d)
                                /\ ~Rejected("InvalidDelay"))
              /\ (~NotPositive(in[1]) /\ NotPositive(in[2])) =>
                    ~ENABLED (setCounter(callback, in[1], in[2], d)
                                /\ ~Rejected("InvalidRepeat"))

(***************************************************************************)
(* C6.  In every reachable state, a call of setInterval or setCounter with *)
(* a delay that is <= 0 or not of type number fails with the invalid-delay *)
(* error; a call of setTimeout does so only for a delay that is not falsy, *)
(* a falsy one being replaced by 1 and the entry registered under the next *)
(* id; with a valid delay, repeats <= 0 or not of type number fail with    *)
(* the invalid-repeat error.  The failed call adds no entry, consumes no   *)
(* id and changes nothing else.                                            *)
(***************************************************************************)
RegisteredWithDelay(delay) ==
    /\ currentIndex' = currentIndex + 1
    /\ DOMAIN tickerCallbacks' = Live \cup {currentIndex}
    /\ tickerCallbacks'[currentIndex].delay = delay
    /\ tickerCallbacks'[currentIndex].repeats = Num(1)

C6_Validation ==
    \A callback \in Callbacks, d \in Steps :
        /\ \A t \in TimeoutInputs :
              IF Falsy(t)
              THEN ~ENABLED (setTimeout(callback, t, d) /\ ~RegisteredWithDelay(Num(1)))
              ELSE NotPositive(t) =>
                     ~ENABLED (setTimeout(callback, t, d) /\ ~Rejected("InvalidDelay"))
        /\ \A t \in IntervalInputs :
              NotPositive(t) =>
                  ~ENABLED (setInterval(callback, t, d) /\ ~Rejected("InvalidDelay"))
        /\ \A in \in CounterInputs :
              /\ NotPositive(in[1]) =>
                    ~ENABLED (setCounter(callback, in[1], in[2], d)
                                /\ ~Rejected("InvalidDelay"))
              /\ (~NotPositive(in[1]) /\ NotPositive(in[2])) =>
                    ~ENABLED (setCounter(callback, in[1], in[2], d)
                                /\ ~Rejected("InvalidRepeat"))

\* a callback's registration has just failed on its delay, with an id still to
\* issue and an entry in the registry
C6_Witness ==
    /\ pc = "callback"
    /\ cur.last = "InvalidDelay"
    /\ currentIndex = FirstIndex + 1
    /\ Live = {FirstIndex}

(***************************************************************************)
(* C7.  Outside the firing of an entry, every entry of the registry has    *)
(* delay > 0, repeats > 0 and firedCount < repeats, and no entry is ever   *)
(* invoked more than its repeat count.                                     *)
(***************************************************************************)
Positive(x) == x.t = "infinity" \/ (x.t = "number" /\ x.v > 0)
Below(n, x) == x.t = "infinity" \/ (x.t = "number" /\ n < x.v)

C7_EntryInvariant ==
    \A i \in Live :
        /\ InCallback(i) \/
              /\ Positive(tickerCallbacks[i].delay)
              /\ Positive(tickerCallbacks[i].repeats)
              /\ Below(tickerCallbacks[i].count, tickerCallbacks[i].repeats)
        /\ Bounded(tickerCallbacks[i]) => calls[i] <= tickerCallbacks[i].repeats.v

(***************************************************************************)
(* C8.  In every reachable state, no call of start() while Running changes *)
(* anything: no frame request, no new baseline, no change of mode,         *)
(* bindings or registry; and every call of start() while Stopped takes the *)
(* clock as baseline, sets running, issues exactly one frame request and   *)
(* switches to managed mode, the registry and the next id unchanged.       *)
(***************************************************************************)
StartEffect ==
    IF running
    THEN UNCHANGED <<host, service>>
    ELSE /\ currentTime' = now'
         /\ running'
         /\ animationFrameRequest' \notin pending
         /\ pending' = pending \cup {animationFrameRequest'}
         /\ ~useScopeFunctionsFlag'
         /\ \A s \in Symbols : bindings'[s] = "ticker"
         /\ UNCHANGED <<currentIndex, delta, frameRateHistory, tickerCallbacks>>

C8_Start == \A d \in Steps : ~ENABLED (start(d) /\ ~StartEffect)

\* a callback has just called start() while Running: no frame request exists
\* beyond the one being delivered, and the baseline is the last frame's
C8_Witness ==
    /\ pc = "callback"
    /\ cur.last = "start"
    /\ running
    /\ pending = {}
    /\ currentTime < now

(***************************************************************************)
(* C9.  From the return of stop() to the next start(), isRunning is false  *)
(* and no frame request is outstanding.                                    *)
(***************************************************************************)
C9_StoppedHasNoRequest == ~running => pending = {}

(***************************************************************************)
(* C10.  At most one frame request of the scheduler is outstanding.        *)
(***************************************************************************)
C10_OneRequest == Cardinality(pending) <= 1

(***************************************************************************)
(* C11.  In every reachable state, no call of stop() or start() changes    *)
(* the registry (the entries with their counts and times) or the id        *)
(* counter, and none invokes a callback; stop() leaves isRunning false     *)
(* and start() leaves it true.                                             *)
(***************************************************************************)
RegistryKept == UNCHANGED <<tickerCallbacks, currentIndex, pc, calls>>

C11_StopStartKeepRegistry ==
    /\ ~ENABLED (stop /\ ~(RegistryKept /\ ~running'))
    /\ \A d \in Steps : ~ENABLED (start(d) /\ ~(RegistryKept /\ running'))

\* a callback has stopped and restarted the service, and an entry that has
\* already been invoked is still registered with its count
C11_Witness ==
    /\ pc = "callback"
    /\ cur.last = "start"
    /\ pending # {}
    /\ \E i \in Live : tickerCallbacks[i].count > 0

(***************************************************************************)
(* C12.  The construction leaves the scheduler Running, the mode flag      *)
(* managed (useScopeFunctions false) and each of the six host symbols      *)
(* bound to the scheduler: the state every behaviour of Spec starts in.    *)
(***************************************************************************)
C12_Constructed ==
    ~ENABLED (constructor /\ ~(/\ running'
                               /\ ~useScopeFunctionsFlag'
                               /\ \A s \in Symbols : bindings'[s] = "ticker"
                               /\ Constructed(FALSE)'))

\* the state immediately after the construction
C12_Witness ==
    /\ running
    /\ ~useScopeFunctionsFlag
    /\ \A s \in Symbols : bindings[s] = "ticker"
    /\ pending = {animationFrameRequest}
    /\ currentIndex = FirstIndex
    /\ currentTime = now
    /\ now = 1
    /\ tickerCallbacks = <<>>

(***************************************************************************)
(* C13.  In every reachable state the mode flag agrees with the bindings:  *)
(* it reads native exactly when all six symbols are the originals and      *)
(* managed exactly when all six are the scheduler's, never a mixture; and  *)
(* no call of the setter with the value the flag already holds changes     *)
(* anything.                                                               *)
(***************************************************************************)
AllBound(to) == \A s \in Symbols : bindings[s] = to

C13_FlagAgreesWithBindings ==
    /\ useScopeFunctionsFlag <=> AllBound("original")
    /\ ~useScopeFunctionsFlag <=> AllBound("ticker")
    /\ ~ENABLED (/\ setUseScopeFunctions(useScopeFunctionsFlag)
                 /\ ~UNCHANGED <<host, service>>)

\* the service is running in native mode: the flag was set without stop()
C13_Witness ==
    /\ running
    /\ useScopeFunctionsFlag
    /\ AllBound("original")
    /\ Live # {}

(***************************************************************************)
(* C14.  In every reachable state, no call of the mode setter, with either *)
(* value, changes isRunning, the outstanding frame requests, the registry, *)
(* the id counter, the frame-rate history or the time baseline, and none   *)
(* invokes a callback.                                                     *)
(***************************************************************************)
C14_SetterKeepsLoop ==
    \A value \in BOOLEAN :
        ~ENABLED (/\ setUseScopeFunctions(value)
                  /\ ~UNCHANGED <<running, pending, animationFrameRequest,
                                  tickerCallbacks, currentIndex, frameRateHistory,
                                  currentTime, delta, now, pc, time, calls>>)

\* native mode was set while the loop runs: a frame request is outstanding,
\* samples have been recorded and an entry is registered
C14_Witness ==
    /\ running
    /\ useScopeFunctionsFlag
    /\ pending # {}
    /\ frameRateHistory # <<>>
    /\ Live # {}

(***************************************************************************)
(* C16, as the specification states it.  In every reachable state, a call  *)
(* of sleep() or frame() while the symbol it uses is bound to the          *)
(* scheduler adds exactly one one-shot entry to the registry, and a call   *)
(* while it is bound to the original leaves the registry and the id        *)
(* counter unchanged.                                                      *)
(***************************************************************************)
AddsOneShot ==
    /\ currentIndex' = currentIndex + 1
    /\ DOMAIN tickerCallbacks' = Live \cup {currentIndex}
    /\ currentIndex \notin Live
    /\ tickerCallbacks'[currentIndex].repeats = Num(1)
    /\ tickerCallbacks'[currentIndex].count = 0
    /\ \A i \in Live : tickerCallbacks'[i] = tickerCallbacks[i]

AddsNothing == UNCHANGED <<tickerCallbacks, currentIndex>>

C16_AsStated ==
    \A d \in Steps :
        /\ \A t \in SleepInputs :
              ~ENABLED (sleep(t, d) /\ ~(IF bindings["setTimeout"] = "ticker"
                                         THEN AddsOneShot ELSE AddsNothing))
        /\ ~ENABLED (frame(d) /\ ~(IF bindings["requestAnimationFrame"] = "ticker"
                                   THEN AddsOneShot ELSE AddsNothing))

(***************************************************************************)
(* C16.  In every reachable state, a call of frame(), or of sleep() with a *)
(* time the scheduler's setTimeout accepts (falsy, or a positive number),  *)
(* while the symbol it uses is bound to the scheduler adds exactly one     *)
(* one-shot entry to the registry; a call of sleep() with any other time   *)
(* adds none (the promise is rejected); and a call of either while the     *)
(* symbol is bound to the original leaves the registry and the id counter  *)
(* unchanged.                                                              *)
(***************************************************************************)
C16_Routing ==
    \A d \in Steps :
        /\ \A t \in SleepInputs :
              ~ENABLED (sleep(t, d) /\ ~(IF /\ bindings["setTimeout"] = "ticker"
                                            /\ (Falsy(t) \/ ~NotPositive(t))
                                         THEN AddsOneShot ELSE AddsNothing))
        /\ ~ENABLED (frame(d) /\ ~(IF bindings["requestAnimationFrame"] = "ticker"
                                   THEN AddsOneShot ELSE AddsNothing))

\* a callback has just called sleep() or frame() in native mode, the service
\* running with an id issued and the next one still to issue
C16_Witness ==
    /\ pc = "callback"
    /\ cur.last = "native"
    /\ running
    /\ useScopeFunctionsFlag
    /\ currentIndex = FirstIndex + 1

(***************************************************************************)
(* C15.  While the service stays Running in managed mode and frames with a *)
(* positive delta keep being delivered, the promise of every sleep(t),     *)
(* t >= 0, is eventually resolved: the one-shot entry it registered is     *)
(* eventually invoked, provided its delay ends within the clock of the     *)
(* model.                                                                  *)
(***************************************************************************)
Promised(i) ==
    /\ i \in Live
    /\ tickerCallbacks[i].repeats = Num(1)
    /\ regTime[i] + tickerCallbacks[i].delay.v <= MaxTime

Resolved(i) == i \in DOMAIN calls /\ calls[i] > 0

C15_SleepResolves == \A i \in Ids : Promised(i) ~> Resolved(i)

\* the promise of a sleep(2) is being resolved, two milliseconds or more after
\* the call
C15_Witness ==
    \E i \in Live :
        /\ InCallback(i)
        /\ tickerCallbacks[i].repeats = Num(1)
        /\ tickerCallbacks[i].delay = Num(2)
        /\ now - regTime[i] >= 2

(***************************************************************************)
(* C17.  A next-frame registration (requestAnimationFrame: once, delay 1)  *)
(* is invoked on the very next tick after the registration, whatever the   *)
(* duration of the frame and the moment of the registration: no tick ends  *)
(* with a next-frame entry that existed when the tick began still in the   *)
(* registry, never invoked.                                                *)
(***************************************************************************)
NextFrameEntry(i) ==
    /\ i \in Live
    /\ tickerCallbacks[i].repeats = Num(1)
    /\ tickerCallbacks[i].delay = Num(1)

\* the frame callback runs a tick to its end and i is still registered
TickEndsKeeping(i) ==
    /\ delta' # 0
    /\ pc' = "idle"
    /\ i \in DOMAIN tickerCallbacks'

C17_NextTick ==
    \A i \in Ids :
        /\ (pc = "idle" /\ running /\ NextFrameEntry(i)) =>
              \A h \in Handles, d \in Steps :
                  ~ENABLED (playAnimationFrame(h, d) /\ TickEndsKeeping(i))
        /\ (pc = "callback" /\ NextFrameEntry(i) /\ regTime[i] < time) =>
              ~ENABLED (CallbackReturn /\ TickEndsKeeping(i))

(***************************************************************************)
(* C18.  After a stop() followed by a start(), the first tick after the    *)
(* restart advances the accumulated time of every pending entry by the     *)
(* length of the gap between the stop and the start.                       *)
(***************************************************************************)
\* the frame callback begins a tick, which advances by `amount` every entry
\* it visits up to the first callback it invokes
TickCharges(amount) ==
    \A i \in Live :
        (pc' = "callback" => i <= cur'.id) =>
            /\ i \in DOMAIN tickerCallbacks'
            /\ tickerCallbacks'[i].totalTime = tickerCallbacks[i].totalTime + amount

FirstTick(h, d) == playAnimationFrame(h, d) /\ delta' # 0

NoTickWork ==
    /\ pc' = "idle"
    /\ UNCHANGED <<tickerCallbacks, calls, frameRateHistory>>

AwaitsFirstFrame == pc = "idle" /\ running /\ restart.start # 0

C19_AsStated ==
    AwaitsFirstFrame =>
        \A h \in Handles, d \in Steps :
            ~ENABLED (playAnimationFrame(h, d) /\ ~(delta' = 0 /\ NoTickWork))

\* what the code does: the delta of the first frame after a start() made
\* between two frames is the time since that start(), and the frame performs
\* no tick work when that time is zero
C19_FirstFrame ==
    AwaitsFirstFrame =>
        \A h \in Handles, d \in Steps :
            ~ENABLED (/\ playAnimationFrame(h, d)
                      /\ ~(/\ delta' = now' - restart.start
                           /\ delta' = 0 => NoTickWork))

\* the first frame after a start() can come at once, or later and invoke a
\* callback
C19_Witness ==
    /\ AwaitsFirstFrame
    /\ Live # {}
    /\ \E h \in Handles :
          /\ ENABLED (playAnimationFrame(h, 0) /\ delta' = 0)
          /\ ENABLED (playAnimationFrame(h, 1) /\ pc' = "callback")

(***************************************************************************)
(* C20.  The frame-rate history holds at most 120 samples, the most recent *)
(* first: a stored sample becomes the first one and the samples already    *)
(* held follow it in their order, and when 120 are held the oldest of them *)
(* is discarded, and only that one.                                        *)
(***************************************************************************)
Appended(dl) ==
    LET kept == IF Len(frameRateHistory) = HistoryLength
                THEN HistoryLength - 1
                ELSE Len(frameRateHistory)
    IN /\ Len(frameRateHistory') = kept + 1
       /\ frameRateHistory'[1] = FrameRateSample(dl)
       /\ \A k \in 1 .. kept : frameRateHistory'[k + 1] = frameRateHistory[k]

C20_BoundedHistory ==
    /\ Len(frameRateHistory) <= HistoryLength
    /\ \A dl \in FrameDeltas \ {0} : ~ENABLED (StoreSample(dl) /\ ~Appended(dl))

\* 120 samples are held, the oldest of them a slow one, and one more is stored
C20_Witness ==
    /\ Len(frameRateHistory) = HistoryLength
    /\ frameRateHistory[HistoryLength] = FrameRateSample(33)
    /\ frameRateHistory[1] = FrameRateSample(16)
    /\ ENABLED StoreSample(16)

(***************************************************************************)
(* C21.  The frame-rate history changes only while the service is Running: *)
(* a step taken while isRunning is false, from the return of stop() (also  *)
(* of a stop() made inside a callback during a tick) until the next        *)
(* start(), leaves the history as it is.                                   *)
(***************************************************************************)
C21_FrozenWhileStopped == [][~running => UNCHANGED frameRateHistory]_vars

(***************************************************************************)
(* C22.  In every reachable state score is a number between 0 and 100,     *)
(* whatever positive frame deltas were observed (deltas longer than 67 ms  *)
(* and a slow frame after a history of fast frames included), and it is    *)
(* 100 when averageFrameRate equals maxFrameRate.                          *)
(***************************************************************************)
C22_ScoreInRange ==
    LET s == score(delta, frameRateHistory) IN
    /\ s.t = "number"
    /\ 0 <= s.v
    /\ s.v <= 100
    /\ (AverageTotal(delta, frameRateHistory) =
           AverageCount(frameRateHistory) * MaxFrameRate(delta) * 1000) => s = Num(100)

(***************************************************************************)
(* C23.  An error thrown by a registered callback during a tick is not     *)
(* caught: it ends the tick and the frame callback at once.  The entries   *)
(* not yet visited are neither advanced nor invoked, and the entry that    *)
(* threw keeps the count and the execution time it had before the          *)
(* invocation and is not removed.                                          *)
(***************************************************************************)
ThrowEffect ==
    /\ pc' = "idle"
    /\ UNCHANGED <<tickerCallbacks, calls, currentIndex>>
    /\ UNCHANGED <<currentTime, delta, frameRateHistory, pending, animationFrameRequest>>

C23_ThrowPropagates ==
    /\ ~ENABLED (CallbackThrow /\ ~ThrowEffect)
    /\ \A i \in Live : InCallback(i) => tickerCallbacks[i].count = cur.count

\* the first entry threw on its first invocation and is still registered, not
\* counted; the entry after it was not invoked
C23_Witness ==
    /\ pc = "idle"
    /\ \E i, j \in Live :
          /\ i < j
          /\ calls[i] = 1
          /\ tickerCallbacks[i].count = 0
          /\ tickerCallbacks[i].executionTime = 0
          /\ tickerCallbacks[j].delay = Num(1)
          /\ regTime[j] < now
          /\ calls[j] = 0

(***************************************************************************)
(* C24.  Each registration stores the repeat bound and the delay of its    *)
(* kind: setTimeout 1 and the given delay, or 1 when the given delay is    *)
(* 0, undefined or NaN; setInterval no bound and the given delay;          *)
(* setCounter the given count and delay; requestAnimationFrame 1 and 1;    *)
(* setAnimationLoop no bound and 1000 / frameRate, or 1 when there is no   *)
(* frame rate (none given, or 0).                                          *)
(***************************************************************************)
Registers == currentIndex' # currentIndex

Stores(repeats, delay) ==
    /\ currentIndex' = currentIndex + 1
    /\ currentIndex \in DOMAIN tickerCallbacks'
    /\ tickerCallbacks'[currentIndex].repeats = repeats
    /\ tickerCallbacks'[currentIndex].delay = delay

C24_StoredPerKind ==
    \A d \in Steps :
        /\ \A t \in TimeoutInputs :
              ~ENABLED (/\ setTimeout(TRUE, t, d)
                        /\ Registers
                        /\ ~Stores(Num(1), IF t \in {Num(0), Undefined, NaN}
                                           THEN Num(1) ELSE t))
        /\ \A t \in IntervalInputs :
              ~ENABLED (setInterval(TRUE, t, d) /\ Registers /\ ~Stores(Infinity, t))
        /\ \A in \in CounterInputs :
              ~ENABLED (/\ setCounter(TRUE, in[1], in[2], d)
                        /\ Registers
                        /\ ~Stores(in[2], in[1]))
        /\ ~ENABLED (/\ requestAnimationFrame(TRUE, d)
                     /\ Registers
                     /\ ~Stores(Num(1), Num(1)))
        /\ \A frameRate \in FrameRateInputs :
              ~ENABLED (/\ setAnimationLoop(TRUE, frameRate, d)
                        /\ Registers
                        /\ ~Stores(Infinity, IF frameRate \in {Undefined, Num(0)}
                                             THEN Num(1)
                                             ELSE Num(1000 \div frameRate.v)))

\* an unbounded entry of delay 2 and an entry of two repeats are registered
C24_Witness ==
    \E i, j \in Live :
        /\ tickerCallbacks[i].repeats = Infinity
        /\ tickerCallbacks[i].delay = Num(2)
        /\ tickerCallbacks[j].repeats = Num(2)
        /\ tickerCallbacks[j].delay = Num(1)

(***************************************************************************)
(* C25.  Within one tick every entry is advanced by delta at most once and *)
(* invoked at most once, even when its time since the last invocation is   *)
(* several times its delay: the traversal moves on to later entries only,  *)
(* and leaves alone the entries it has passed.                             *)
(***************************************************************************)
\* the traversal continues after the entry `last`, with delta dl
AdvancesOnce(last, dl) ==
    /\ \A i \in Live \cap DOMAIN tickerCallbacks' :
          /\ i <= last =>
                tickerCallbacks'[i].totalTime = tickerCallbacks[i].totalTime
          /\ i > last =>
                tickerCallbacks'[i].totalTime \in
                    {tickerCallbacks[i].totalTime, tickerCallbacks[i].totalTime + dl}
    /\ pc' = "callback" =>
          /\ cur'.id > last
          /\ calls'[cur'.id] = calls[cur'.id] + 1
    /\ \A i \in DOMAIN calls : (pc' = "callback" => i # cur'.id) => calls'[i] = calls[i]

C25_OncePerTick ==
    /\ \A h \in Handles, d \in Steps :
          ~ENABLED (playAnimationFrame(h, d) /\ ~AdvancesOnce(0, delta'))
    /\ pc = "callback" => ~ENABLED (CallbackReturn /\ ~AdvancesOnce(cur.id, delta))

\* a repeating entry is invoked two delays or more after its last invocation
C25_Witness ==
    \E i \in Live :
        /\ InCallback(i)
        /\ tickerCallbacks[i].repeats = Infinity
        /\ tickerCallbacks[i].delay = Num(1)
        /\ cur.tickerTime >= 2

(***************************************************************************)
(* C26.  When a repeating entry is invoked on a tick where its time since  *)
(* the last invocation exceeds its delay, the excess (that time minus the  *)
(* delay) rolls forward: it is the time since the last invocation the      *)
(* entry has when the invocation is over.                                  *)
(***************************************************************************)
\* if the entry in progress is still registered after its callback has
\* returned, it has this much time since its last invocation
ReturnsWith(tickerTime) ==
    cur.id \in DOMAIN tickerCallbacks' =>
        tickerCallbacks'[cur.id].totalTime - tickerCallbacks'[cur.id].executionTime
            = tickerTime

Repeating == pc = "callback" /\ cur.id \in Live /\ tickerCallbacks[cur.id].delay.t = "number"

C26_AsStated ==
    Repeating =>
        ~ENABLED (/\ CallbackReturn
                  /\ ~ReturnsWith(cur.tickerTime - tickerCallbacks[cur.id].delay.v))

\* what the code does: the excess is dropped, the time since the last
\* invocation starts again from zero
C26_ExcessDropped == Repeating => ~ENABLED (CallbackReturn /\ ~ReturnsWith(0))

\* a repeating entry of delay 1 was invoked once, 2 after its registration, and
\* nothing is left of the excess
C26_Witness ==
    /\ pc = "idle"
    /\ \E i \in Live :
          /\ tickerCallbacks[i].delay = Num(1)
          /\ tickerCallbacks[i].count = 1
          /\ tickerCallbacks[i].executionTime = 2
          /\ tickerCallbacks[i].totalTime = 2

(***************************************************************************)
(* C27.  Every invocation passes the time since the last invocation and    *)
(* then the count, after the entry's own arguments; over the successive    *)
(* invocations of one entry the count passed is 0, 1, 2, ... in order,     *)
(* each value once, and stays below N for an entry of N repeats.           *)
(***************************************************************************)
C27_CountArgument ==
    \A i \in Live :
        InCallback(i) =>
            /\ cur.count = calls[i] - 1
            /\ cur.tickerTime =
                  tickerCallbacks[i].totalTime - tickerCallbacks[i].executionTime
            /\ Bounded(tickerCallbacks[i]) => cur.count < tickerCallbacks[i].repeats.v

(***************************************************************************)
(* C28.  The time since the last invocation passed to every invocation is  *)
(* at least the delay of the entry, so the invocations of an entry are at  *)
(* least one delay of accumulated time apart: the times passed to the      *)
(* first k invocations add up to at least k delays (executionTime is the   *)
(* sum of the times passed to the invocations counted so far).             *)
(***************************************************************************)
C28_AtLeastDelay ==
    \A i \in Live :
        LET ticker == tickerCallbacks[i] IN
        ticker.delay.t = "number" =>
            /\ ticker.executionTime >= ticker.count * ticker.delay.v
            /\ InCallback(i) =>
                  /\ cur.tickerTime >= ticker.delay.v
                  /\ ticker.executionTime + cur.tickerTime
                        >= (ticker.count + 1) * ticker.delay.v

\* the second and last invocation of an entry of two repeats
C28_Witness ==
    \E i \in Live :
        /\ InCallback(i)
        /\ tickerCallbacks[i].repeats = Num(2)
        /\ tickerCallbacks[i].count = 1
        /\ tickerCallbacks[i].executionTime + cur.tickerTime >= 2

(***************************************************************************)
(* C29.  Registrations and cancellations made by a callback during a tick  *)
(* do not corrupt the traversal: when the callback returns the tick goes   *)
(* on without error, every entry after it that is still registered is      *)
(* visited, once, up to the next callback invoked, and an entry cancelled   *)
(* before its turn is skipped, never invoked.                              *)
(***************************************************************************)
ResumesSound ==
    /\ \A j \in Live :
          (j > cur.id /\ (pc' = "callback" => j <= cur'.id)) =>
              /\ j \in DOMAIN tickerCallbacks'
              /\ tickerCallbacks'[j].totalTime = tickerCallbacks[j].totalTime + delta
    /\ \A j \in Live :
          (j > cur.id /\ pc' = "callback" /\ j > cur'.id) =>
              /\ j \in DOMAIN tickerCallbacks'
              /\ tickerCallbacks'[j] = tickerCallbacks[j]
    /\ pc' = "callback" => (cur'.id \in Live /\ cur'.id \notin cancelled)
    /\ DOMAIN tickerCallbacks' \subseteq Live
    /\ \A j \in cancelled : calls'[j] = calls[j]

C29_TraversalSound ==
    pc = "callback" =>
        /\ ENABLED CallbackReturn
        /\ ~ENABLED (CallbackReturn /\ ~ResumesSound)

\* the callback in progress has cancelled the entry after its own, which was
\* registered before the frame and has not been invoked
C29_Witness ==
    /\ pc = "callback"
    /\ cur.last = "cancel"
    /\ cur.id \in Live
    /\ \E j \in cancelled :
          /\ j > cur.id
          /\ regTime[j] < time
          /\ calls[j] = 0

(***************************************************************************)
(* C30.  Whenever isRunning is true and no frame callback is executing,    *)
(* exactly one frame request is outstanding: the run loop never dies while *)
(* the service reports Running, also after a tick in which a callback has  *)
(* thrown.                                                                 *)
(***************************************************************************)
C30_LoopAlive == (running /\ pc = "idle") => Cardinality(pending) = 1

(***************************************************************************)
(* C31.  No registered callback is invoked while isRunning is false: from  *)
(* the return of stop(), also of a stop() made by a callback in the middle *)
(* of a tick that still has due entries to visit, until the next start(),  *)
(* no step invokes an entry or advances one.                               *)
(***************************************************************************)
C31_QuietWhileStopped ==
    [][~running =>
          /\ ~Invokes
          /\ \A i \in Live \cap DOMAIN tickerCallbacks' :
                tickerCallbacks'[i].totalTime = tickerCallbacks[i].totalTime]_vars

(***************************************************************************)
(* C32.  While the service stays Running, at the end of every tick the     *)
(* accumulated time of each live entry is the timestamp of the frame minus *)
(* the timestamp of the entry's registration, for an entry registered      *)
(* between two frames and for one registered inside a callback of the      *)
(* tick: the part of the frame interval before the registration is not     *)
(* charged.  (currentTime is the timestamp of the frame that has ended.)    *)
(***************************************************************************)
Charged ==
    \A i \in Live : tickerCallbacks[i].totalTime = currentTime - regTime[i]

\* the frame callback runs to its end
FrameEnds == pc' = "idle" /\ currentTime' = now'

C32_ChargedSinceRegistration ==
    /\ \A h \in Handles, d \in Steps :
          ~ENABLED (playAnimationFrame(h, d) /\ FrameEnds /\ ~Charged')
    /\ pc = "callback" => ~ENABLED (CallbackReturn /\ pc' = "idle" /\ ~Charged')

\* an entry registered at 2, between the frames at 1 and at 3, has
\* accumulated 1 of the 2 of the tick
C32_Witness ==
    /\ pc = "idle"
    /\ running
    /\ currentTime = 3
    /\ delta = 2
    /\ \E i \in Live : regTime[i] = 2 /\ tickerCallbacks[i].totalTime = 1

(***************************************************************************)
(* C33.  An entry registered inside a callback during a tick is never      *)
(* invoked within that tick, whatever its delay and the delta of the tick: *)
(* every entry invoked was registered before the frame of the tick.        *)
(* (`time` is the timestamp of the frame in progress; an entry registered  *)
(* before the frame at that very timestamp has accumulated nothing.)       *)
(***************************************************************************)
C33_NotInSameTick == \A i \in Live : InCallback(i) => regTime[i] < time

(***************************************************************************)
(* C34.  A delayed-once callback registered while the service is stopped   *)
(* is invoked on the first tick after the following start() at which the   *)
(* time since that start() is at least its delay: the time the service     *)
(* spent stopped neither advances nor postpones it.  On the first frame    *)
(* after the start(), the tick does not end with the entry passed over     *)
(* when that time has reached the delay, and does not invoke it when it    *)
(* has not.                                                                *)
(***************************************************************************)
RegisteredStopped(i) ==
    /\ i \in Live
    /\ i \in restart.idle
    /\ tickerCallbacks[i].repeats = Num(1)
    /\ tickerCallbacks[i].delay.t = "number"

C34_StoppedTimeIgnored ==
    \A i \in Ids :
        (AwaitsFirstFrame /\ RegisteredStopped(i)) =>
            \A h \in Handles, d \in Steps :
                /\ getTime(d) - restart.start >= tickerCallbacks[i].delay.v =>
                      ~ENABLED (/\ playAnimationFrame(h, d)
                                /\ pc' = "idle"
                                /\ i \in DOMAIN tickerCallbacks')
                /\ getTime(d) - restart.start < tickerCallbacks[i].delay.v =>
                      ~ENABLED (/\ playAnimationFrame(h, d)
                                /\ pc' = "callback"
                                /\ cur'.id = i)

====
